---- MODULE Spec2Model ----
(***************************************************************************)
(* State-machine model of the chessboard demo in src/chessboard/main.py:   *)
(* the 64-slot board (self.pieces), the hover/drag interaction state       *)
(* (self.hiSq, self.dragging), the square highlight colours, and the three *)
(* handlers the engine calls: mouseTask (one call per frame), grabPiece    *)
(* (mouse1) and releasePiece (mouse1-up).  The move-legality procedure     *)
(* isVaidMove / isPieceBetween is a pure function of the board and is      *)
(* modelled as operators that take the board as an argument.               *)
(***************************************************************************)
EXTENDS Integers, Sequences, FiniteSets, TLC

\* ------------------------------------------------------------------------
\* Bounds of the model (not program constants)
\* ------------------------------------------------------------------------

\* Number of moves releasePiece may apply in one behaviour of Spec.
MaxMoves == 2

\* ------------------------------------------------------------------------
\* Program constants
\* ------------------------------------------------------------------------

\* range(64): the squares; file = i % 8, rank = i // 8.
NumSquares == 64

\* The board is 8 squares wide (the literal 8 in "% 8", "// 8", "move[1]*8").
BoardWidth == 8

\* Python's False, the "no square" value of self.hiSq and self.dragging.
\* ("x is not False" is true for every square index, 0 included.)
NoSquare == -1

Squares == 0 .. (NumSquares - 1)

\* ------------------------------------------------------------------------
\* Python arithmetic
\* ------------------------------------------------------------------------

\* a // b : floor division, b # 0 of either sign.
PyFloorDiv(a, b) == IF b > 0 THEN a \div b ELSE (0 - a) \div (0 - b)

\* a % b : the remainder that goes with floor division (sign of b).
PyMod(a, b) == a - b * PyFloorDiv(a, b)

\* a/b == c/d on floats, b # 0 and d # 0.  All operands are in -7..7, so the
\* two quotients are equal as floats exactly when they are equal as rationals.
FloatDivEq(a, b, c, d) == a * d = c * b

\* ------------------------------------------------------------------------
\* Pieces
\* ------------------------------------------------------------------------

\* An empty slot of self.pieces (Python None).
NoPiece == [id |-> -1, kind |-> "None", white |-> FALSE,
            is_first_move |-> FALSE, square |-> -1]

\* A Piece object as its constructor leaves it.  id names the object (the
\* square it was constructed for); the constructor sets white and
\* is_first_move and does not set the attribute square (-1: not set).
NewPiece(id, kind, white) ==
    [id |-> id, kind |-> kind, white |-> white,
     is_first_move |-> FALSE, square |-> -1]

\* The class attribute moves of each piece class.
PawnMoves == << <<0, 1>>, <<1, 1>>, <<-1, 1>> >>
KingMoves == << <<1, 0>>, <<0, 1>>, <<-1, 0>>, <<0, -1>>,
                <<1, 1>>, <<-1, 1>>, <<1, -1>>, <<-1, -1>> >>
QueenMoves == << <<1, 0>>, <<0, 1>>, <<-1, 0>>, <<0, -1>>,
                 <<1, 1>>, <<-1, 1>>, <<1, -1>>, <<-1, -1>> >>
BishopMoves == << <<1, 1>>, <<-1, 1>>, <<1, -1>>, <<-1, -1>> >>
KnightMoves == << <<-1, 2>>, <<-2, 1>>, <<-2, -1>>, <<-1, -2>>,
                  <<1, -2>>, <<2, -1>>, <<2, 1>>, <<1, 2>> >>
RookMoves == << <<1, 0>>, <<0, 1>>, <<-1, 0>>, <<0, -1>> >>

\* The instance attribute __init__ gives the pawns it builds for 48..55.
BlackPawnMoves == << <<0, -1>>, <<1, -1>>, <<-1, -1>> >>

\* The pawns patched by __init__ are exactly those constructed for 48..55.
PatchedPawnIds == 48 .. 55

\* Faulty variant of MovesOf: __init__ patches no pawn, so every pawn has the
\* class attribute.
MovesOf_Unpatched(piece) ==
    CASE piece.kind = "Pawn" -> PawnMoves
      [] piece.kind = "King" -> KingMoves
      [] piece.kind = "Queen" -> QueenMoves
      [] piece.kind = "Bishop" -> BishopMoves
      [] piece.kind = "Knight" -> KnightMoves
      [] piece.kind = "Rook" -> RookMoves

\* piece.moves: the instance attribute if the object has one, else the class's.
MovesOf(piece) ==
    CASE piece.kind = "Pawn" ->
             IF piece.id \in PatchedPawnIds THEN BlackPawnMoves ELSE PawnMoves
      [] piece.kind = "King" -> KingMoves
      [] piece.kind = "Queen" -> QueenMoves
      [] piece.kind = "Bishop" -> BishopMoves
      [] piece.kind = "Knight" -> KnightMoves
      [] piece.kind = "Rook" -> RookMoves

\* Faulty variant of LimitOf: no class sets limit = True.
LimitOf_NoneLimited(piece) == FALSE

\* piece.limit: True for Pawn, King, Knight; False for Queen, Bishop, Rook.
LimitOf(piece) == piece.kind \in {"Pawn", "King", "Knight"}

\* pieceOrder, indexed from 0 as in the source.
pieceOrder == [i \in 0 .. 7 |->
                 <<"Rook", "Knight", "Bishop", "Queen",
                   "King", "Bishop", "Knight", "Rook">>[i + 1]]

\* self.pieces at the end of __init__.
InitialPieces ==
    [i \in Squares |->
        CASE i \in 8 .. 15 -> NewPiece(i, "Pawn", TRUE)
          [] i \in 48 .. 55 -> NewPiece(i, "Pawn", FALSE)
          [] i \in 0 .. 7 -> NewPiece(i, pieceOrder[i], TRUE)
          [] i \in 56 .. 63 -> NewPiece(i, pieceOrder[i - 56], FALSE)
          [] OTHER -> NoPiece]

\* ------------------------------------------------------------------------
\* Square colours
\* ------------------------------------------------------------------------

\* SquareColor(i): the checkerboard colour of square i.
SquareColor(i) ==
    IF (i + ((i \div BoardWidth) % 2)) % 2 # 0 THEN "BLACK" ELSE "WHITE"

\* ------------------------------------------------------------------------
\* Legality (pure functions of the board pcs)
\* ------------------------------------------------------------------------

RECURSIVE BetweenLoop(_, _, _, _, _)
\* The while loop of isPieceBetween from position pos on, with the flag
\* piece_NOT_between as accumulated so far.
BetweenLoop(pcs, move, pos, targetPos, notBetween) ==
    IF pos # targetPos /\ pos > -1 /\ pos < NumSquares
    THEN BetweenLoop(pcs, move, pos + move[1] + move[2] * BoardWidth, targetPos,
                     IF pcs[pos] # NoPiece THEN FALSE ELSE notBetween)
    ELSE notBetween

\* Faulty variant of isPieceBetween: the obstruction scan is left out.
isPieceBetween_NoScan(pcs, move, currentPos, targetPos) == TRUE

isPieceBetween(pcs, move, currentPos, targetPos) ==
    BetweenLoop(pcs, move, currentPos + move[1] + move[2] * BoardWidth,
                targetPos, TRUE)

RECURSIVE ScanLoop(_, _, _, _)
\* The same while loop, followed for the positions it takes: inspected is the
\* sequence of positions at which its body runs (each is read from
\* self.pieces), exit the position at which its condition fails.
ScanLoop(move, pos, targetPos, inspected) ==
    IF pos # targetPos /\ pos > -1 /\ pos < NumSquares
    THEN ScanLoop(move, pos + move[1] + move[2] * BoardWidth, targetPos,
                  Append(inspected, pos))
    ELSE [inspected |-> inspected, exit |-> pos]

\* The walk of isPieceBetween(move, currentPos, targetPos).
ScanWalk(move, currentPos, targetPos) ==
    ScanLoop(move, currentPos + move[1] + move[2] * BoardWidth, targetPos, << >>)

\* Faulty variant of MoveMatches: the tests "quotient > 0" are left out, so a
\* target in the direction opposite to a vector matches it.
MoveMatches_NoSign(limit, move, xDistance, yDistance) ==
    IF xDistance = move[1]
    THEN IF yDistance = move[2]
         THEN TRUE
         ELSE /\ limit = FALSE
              /\ move[2] # 0
              /\ yDistance # 0
              /\ PyMod(yDistance, move[2]) = 0
              /\ FloatDivEq(xDistance, yDistance, move[1], move[2])
    ELSE /\ limit = FALSE
         /\ move[1] # 0
         /\ PyMod(xDistance, move[1]) = 0
         /\ IF yDistance = move[2]
            THEN FloatDivEq(yDistance, xDistance, move[2], move[1])
            ELSE /\ move[2] # 0
                 /\ yDistance # 0
                 /\ PyMod(yDistance, move[2]) = 0
                 /\ FloatDivEq(xDistance, yDistance, move[1], move[2])

\* Faulty variant of MoveMatches: the equal-ratio tests are left out, so a
\* displacement matches as soon as each non-zero component of the vector
\* divides its distance with a positive quotient.
MoveMatches_NoRatio(limit, move, xDistance, yDistance) ==
    IF xDistance = move[1]
    THEN IF yDistance = move[2]
         THEN TRUE
         ELSE /\ limit = FALSE
              /\ move[2] # 0
              /\ yDistance # 0
              /\ PyMod(yDistance, move[2]) = 0
              /\ PyFloorDiv(yDistance, move[2]) > 0
    ELSE /\ limit = FALSE
         /\ move[1] # 0
         /\ PyMod(xDistance, move[1]) = 0
         /\ PyFloorDiv(xDistance, move[1]) > 0
         /\ IF yDistance = move[2]
            THEN TRUE
            ELSE /\ move[2] # 0
                 /\ yDistance # 0
                 /\ PyMod(yDistance, move[2]) = 0
                 /\ PyFloorDiv(yDistance, move[2]) > 0

\* Faulty variant of MoveMatches: the quotient tests read ">= 0", so a zero
\* distance counts as zero steps of a vector.
MoveMatches_ZeroSteps(limit, move, xDistance, yDistance) ==
    IF xDistance = move[1]
    THEN IF yDistance = move[2]
         THEN TRUE
         ELSE /\ limit = FALSE
              /\ move[2] # 0
              /\ PyMod(yDistance, move[2]) = 0
              /\ PyFloorDiv(yDistance, move[2]) >= 0
              /\ FloatDivEq(xDistance, yDistance, move[1], move[2])
    ELSE /\ limit = FALSE
         /\ move[1] # 0
         /\ PyMod(xDistance, move[1]) = 0
         /\ PyFloorDiv(xDistance, move[1]) >= 0
         /\ IF yDistance = move[2]
            THEN FloatDivEq(yDistance, xDistance, move[2], move[1])
            ELSE /\ move[2] # 0
                 /\ PyMod(yDistance, move[2]) = 0
                 /\ PyFloorDiv(yDistance, move[2]) >= 0
                 /\ FloatDivEq(xDistance, yDistance, move[1], move[2])

\* One pass of the body of "for move in piece.moves" up to the obstruction
\* test: TRUE iff this pass assigns valid_move = True.
MoveMatches(limit, move, xDistance, yDistance) ==
    IF xDistance = move[1]
    THEN IF yDistance = move[2]
         THEN TRUE
         ELSE /\ limit = FALSE
              /\ move[2] # 0
              /\ yDistance # 0
              /\ PyMod(yDistance, move[2]) = 0
              /\ PyFloorDiv(yDistance, move[2]) > 0
              /\ FloatDivEq(xDistance, yDistance, move[1], move[2])
    ELSE /\ limit = FALSE
         /\ move[1] # 0
         /\ PyMod(xDistance, move[1]) = 0
         /\ PyFloorDiv(xDistance, move[1]) > 0
         /\ IF yDistance = move[2]
            THEN FloatDivEq(yDistance, xDistance, move[2], move[1])
            ELSE /\ move[2] # 0
                 /\ yDistance # 0
                 /\ PyMod(yDistance, move[2]) = 0
                 /\ PyFloorDiv(yDistance, move[2]) > 0
                 /\ FloatDivEq(xDistance, yDistance, move[1], move[2])

\* The passes of "for move in piece.moves" that assign valid_move = True.
MatchingPasses(moves, limit, xDistance, yDistance) ==
    {i \in 1 .. Len(moves) : MoveMatches(limit, moves[i], xDistance, yDistance)}

\* The move of the pass that calls isPieceBetween for a ranged piece: the
\* first pass that matches (the loop breaks after the call).
ScannedMove(moves, xDistance, yDistance) ==
    LET matching == MatchingPasses(moves, FALSE, xDistance, yDistance)
    IN moves[CHOOSE i \in matching : \A j \in matching : i <= j]

\* valid_move at the end of the for loop of isVaidMove.  valid_move is False
\* until the first matching pass sets it.  If self.pieces[currentPos].limit is
\* False, that same pass replaces it by isPieceBetween(move, ...) for its own
\* move and breaks; otherwise no later pass resets it.
MovesLoop(pcs, moves, limit, currentPos, targetPos, xDistance, yDistance) ==
    LET matching == MatchingPasses(moves, limit, xDistance, yDistance)
    IN IF matching = {}
       THEN FALSE
       ELSE IF LimitOf(pcs[currentPos]) = FALSE
            THEN LET first == CHOOSE i \in matching : \A j \in matching : i <= j
                 IN isPieceBetween(pcs, moves[first], currentPos, targetPos)
            ELSE TRUE

\* Faulty variant of isVaidMove: the same-colour test at the end is left out.
isVaidMove_NoSideRule(pcs, piece, currentPos, targetPos) ==
    MovesLoop(pcs, MovesOf(piece), LimitOf(piece), currentPos, targetPos,
              (targetPos % BoardWidth) - (currentPos % BoardWidth),
              (targetPos \div BoardWidth) - (currentPos \div BoardWidth))

\* Faulty variant of isVaidMove: the final test rejects every occupied target,
\* whatever the side of the piece on it.
isVaidMove_NoCapture(pcs, piece, currentPos, targetPos) ==
    IF pcs[targetPos] # NoPiece
    THEN FALSE
    ELSE MovesLoop(pcs, MovesOf(piece), LimitOf(piece), currentPos, targetPos,
                   (targetPos % BoardWidth) - (currentPos % BoardWidth),
                   (targetPos \div BoardWidth) - (currentPos \div BoardWidth))

\* isVaidMove(piece, currentPos, targetPos) on the board pcs.  (The squares
\* are in 0..63, where Python's % and // are TLA+'s % and \div.)
isVaidMove(pcs, piece, currentPos, targetPos) ==
    LET xCurrent == currentPos % BoardWidth
        yCurrent == currentPos \div BoardWidth
        xTarget == targetPos % BoardWidth
        yTarget == targetPos \div BoardWidth
        xDistance == xTarget - xCurrent
        yDistance == yTarget - yCurrent
        valid_move == MovesLoop(pcs, MovesOf(piece), LimitOf(piece),
                                currentPos, targetPos, xDistance, yDistance)
    IN IF pcs[targetPos] # NoPiece /\ pcs[targetPos].white = piece.white
       THEN FALSE
       ELSE valid_move

\* ------------------------------------------------------------------------
\* The move executor
\* ------------------------------------------------------------------------

\* Faulty variant of swapPieces: the two slots are exchanged and nothing is
\* removed, so a piece that stood on the target ends up on the origin.
swapPieces_NoRemove(pcs, fr, to) ==
    LET swapped == [pcs EXCEPT ![fr] = pcs[to], ![to] = pcs[fr]]
        moved == IF swapped[fr] # NoPiece
                 THEN [swapped EXCEPT ![fr].square = fr]
                 ELSE swapped
        placed == IF moved[to] # NoPiece
                  THEN [moved EXCEPT ![to].square = to]
                  ELSE moved
    IN [pieces |-> placed, gameOver |-> FALSE, removed |-> -1, constructed |-> 0]

\* Faulty variant of swapPieces: the "Game over!" text is put up at every
\* capture, whatever the class of the captured piece.
swapPieces_AnyCaptureEnds(pcs, fr, to) ==
    LET swapped == [pcs EXCEPT ![fr] = pcs[to], ![to] = pcs[fr]]
        captures == swapped[fr] # NoPiece /\ fr # to
        cleared == IF captures THEN [swapped EXCEPT ![fr] = NoPiece] ELSE swapped
        placed == IF cleared[to] # NoPiece
                  THEN [cleared EXCEPT ![to].square = to]
                  ELSE cleared
    IN [pieces |-> placed,
        gameOver |-> captures,
        removed |-> IF captures THEN swapped[fr].id ELSE -1,
        constructed |-> IF captures THEN 1 ELSE 0]

\* swapPieces(fr, to) on the board pcs: the board it leaves, whether it puts
\* up the "Game over!" text, the id of the piece object it removes (-1: none),
\* and the number of Piece objects it constructs: the King(-100, WHITE) whose
\* type it compares with the captured piece's, built whenever a piece is
\* captured and put on no square of the board.
swapPieces(pcs, fr, to) ==
    LET swapped == [pcs EXCEPT ![fr] = pcs[to], ![to] = pcs[fr]]
        captures == swapped[fr] # NoPiece /\ fr # to
        cleared == IF captures THEN [swapped EXCEPT ![fr] = NoPiece] ELSE swapped
        placed == IF cleared[to] # NoPiece
                  THEN [cleared EXCEPT ![to].square = to]
                  ELSE cleared
    IN [pieces |-> placed,
        gameOver |-> captures /\ swapped[fr].kind = "King",
        removed |-> IF captures THEN swapped[fr].id ELSE -1,
        constructed |-> IF captures THEN 1 ELSE 0]

\* ------------------------------------------------------------------------
\* State
\* ------------------------------------------------------------------------

VARIABLES
    pieces,         \* self.pieces: square -> piece object or NoPiece
    hiSq,           \* self.hiSq: the highlighted square or NoSquare
    dragging,       \* self.dragging: the square the dragged piece came from
    sqColor,        \* the colour last set on each self.squares[i]
    gameOverTexts,  \* number of "Game over!" OnscreenText objects created
    removed,        \* ids of the piece objects whose remove() was called
    probeKings,     \* number of Piece objects constructed since __init__
    nMoves,         \* number of moves applied so far (bounds the model)
    event           \* the handler that ran last and the branch it took:
                    \* "init" (none yet), "tick" (mouseTask with the mouse in
                    \* the window), "tick_nomouse" (mouseTask without),
                    \* "press", "release_invalid" (releasePiece printed
                    \* "... is invalid!"), "release_swapping" (it printed
                    \* "swapping ..."), "release" (nothing was dragged)

vars == <<pieces, hiSq, dragging, sqColor, gameOverTexts, removed, probeKings,
          nMoves, event>>

\* The squares the pointer is moved over in the sessions of Spec: d6, d7, d8, e8.
PointerSquares == {43, 51, 59, 60}

\* ------------------------------------------------------------------------
\* Handlers
\* ------------------------------------------------------------------------

\* The colours after the "Highlight valid moves" loop of mouseTask, run on
\* the colours base while a piece is dragged.
HighlightValid(base) ==
    [i \in Squares |->
        IF isVaidMove(pieces, pieces[dragging], dragging, i)
        THEN "VALID"
        ELSE base[i]]

\* mouseTask.  hasMouse is what mouseWatcherNode.hasMouse() returns; the
\* collision pass then finds no square under the pointer, or the nearest one,
\* which is one of the squares in over.
mouseTask(hasMouse, over) ==
    \E cleared \in {IF hiSq # NoSquare
                    THEN [i \in Squares |-> SquareColor(i)]
                    ELSE sqColor} :
      /\ IF hasMouse
         THEN \E marked \in {IF dragging # NoSquare
                             THEN HighlightValid(cleared)
                             ELSE cleared} :
                 \/ \* the collision queue is empty
                    /\ sqColor' = marked
                    /\ hiSq' = NoSquare
                 \/ \* the nearest entry is square hit
                    \E hit \in over :
                       /\ sqColor' = [marked EXCEPT ![hit] = "HIGHLIGHT"]
                       /\ hiSq' = hit
         ELSE /\ sqColor' = cleared
              /\ hiSq' = NoSquare
      /\ event' = (IF hasMouse THEN "tick" ELSE "tick_nomouse")
      /\ UNCHANGED <<pieces, dragging, gameOverTexts, removed, probeKings, nMoves>>

\* Faulty variant of grabPiece: the highlighted square is taken as the origin
\* of a drag whether or not a piece stands on it.
grabPiece_AnySquare ==
    /\ IF hiSq # NoSquare
       THEN /\ dragging' = hiSq
            /\ hiSq' = NoSquare
       ELSE UNCHANGED <<dragging, hiSq>>
    /\ event' = "press"
    /\ UNCHANGED <<pieces, sqColor, gameOverTexts, removed, probeKings, nMoves>>

\* grabPiece.
grabPiece ==
    /\ IF hiSq # NoSquare /\ pieces[hiSq] # NoPiece
       THEN /\ dragging' = hiSq
            /\ hiSq' = NoSquare
       ELSE UNCHANGED <<dragging, hiSq>>
    /\ event' = "press"
    /\ UNCHANGED <<pieces, sqColor, gameOverTexts, removed, probeKings, nMoves>>

\* Faulty variant of releasePiece: a release over a square swaps without
\* asking isVaidMove.
releasePiece_NoCheck ==
    /\ IF dragging # NoSquare
       THEN IF hiSq = NoSquare
            THEN /\ event' = "release_invalid"
                 /\ UNCHANGED <<pieces, gameOverTexts, removed, probeKings, nMoves>>
            ELSE LET flagged == [pieces EXCEPT ![dragging].is_first_move = FALSE]
                     swap == swapPieces(flagged, dragging, hiSq)
                 IN /\ nMoves < MaxMoves
                    /\ event' = "release_swapping"
                    /\ pieces' = swap.pieces
                    /\ gameOverTexts' = gameOverTexts + (IF swap.gameOver THEN 1 ELSE 0)
                    /\ removed' = removed \cup ({swap.removed} \ {-1})
                    /\ probeKings' = probeKings + swap.constructed
                    /\ nMoves' = nMoves + 1
       ELSE /\ event' = "release"
            /\ UNCHANGED <<pieces, gameOverTexts, removed, probeKings, nMoves>>
    /\ dragging' = NoSquare
    /\ UNCHANGED <<hiSq, sqColor>>

\* Faulty variant of releasePiece: the test of isVaidMove is inverted, so the
\* moves it rejects are the ones applied.
releasePiece_Inverted ==
    /\ IF dragging # NoSquare
       THEN IF \/ hiSq = NoSquare
               \/ isVaidMove(pieces, pieces[dragging], dragging, hiSq) = TRUE
            THEN /\ event' = "release_invalid"
                 /\ UNCHANGED <<pieces, gameOverTexts, removed, probeKings, nMoves>>
            ELSE LET flagged == [pieces EXCEPT ![dragging].is_first_move = FALSE]
                     swap == swapPieces(flagged, dragging, hiSq)
                 IN /\ nMoves < MaxMoves
                    /\ event' = "release_swapping"
                    /\ pieces' = swap.pieces
                    /\ gameOverTexts' = gameOverTexts + (IF swap.gameOver THEN 1 ELSE 0)
                    /\ removed' = removed \cup ({swap.removed} \ {-1})
                    /\ probeKings' = probeKings + swap.constructed
                    /\ nMoves' = nMoves + 1
       ELSE /\ event' = "release"
            /\ UNCHANGED <<pieces, gameOverTexts, removed, probeKings, nMoves>>
    /\ dragging' = NoSquare
    /\ UNCHANGED <<hiSq, sqColor>>

\* Faulty variant of releasePiece: once a "Game over!" text is up, every
\* release is rejected.
releasePiece_LockedAfterGameOver ==
    /\ IF dragging # NoSquare
       THEN IF \/ hiSq = NoSquare
               \/ gameOverTexts > 0
               \/ isVaidMove(pieces, pieces[dragging], dragging, hiSq) = FALSE
            THEN /\ event' = "release_invalid"
                 /\ UNCHANGED <<pieces, gameOverTexts, removed, probeKings, nMoves>>
            ELSE LET flagged == [pieces EXCEPT ![dragging].is_first_move = FALSE]
                     swap == swapPieces(flagged, dragging, hiSq)
                 IN /\ nMoves < MaxMoves
                    /\ event' = "release_swapping"
                    /\ pieces' = swap.pieces
                    /\ gameOverTexts' = gameOverTexts + (IF swap.gameOver THEN 1 ELSE 0)
                    /\ removed' = removed \cup ({swap.removed} \ {-1})
                    /\ probeKings' = probeKings + swap.constructed
                    /\ nMoves' = nMoves + 1
       ELSE /\ event' = "release"
            /\ UNCHANGED <<pieces, gameOverTexts, removed, probeKings, nMoves>>
    /\ dragging' = NoSquare
    /\ UNCHANGED <<hiSq, sqColor>>

\* Faulty variant of releasePiece: self.dragging is cleared only when the
\* release is rejected, so after an applied move it still names the square the
\* piece has left.
releasePiece_KeepsDragging ==
    /\ IF dragging # NoSquare
       THEN IF \/ hiSq = NoSquare
               \/ isVaidMove(pieces, pieces[dragging], dragging, hiSq) = FALSE
            THEN /\ event' = "release_invalid"
                 /\ dragging' = NoSquare
                 /\ UNCHANGED <<pieces, gameOverTexts, removed, probeKings, nMoves>>
            ELSE LET flagged == [pieces EXCEPT ![dragging].is_first_move = FALSE]
                     swap == swapPieces(flagged, dragging, hiSq)
                 IN /\ nMoves < MaxMoves
                    /\ event' = "release_swapping"
                    /\ dragging' = dragging
                    /\ pieces' = swap.pieces
                    /\ gameOverTexts' = gameOverTexts + (IF swap.gameOver THEN 1 ELSE 0)
                    /\ removed' = removed \cup ({swap.removed} \ {-1})
                    /\ probeKings' = probeKings + swap.constructed
                    /\ nMoves' = nMoves + 1
       ELSE /\ event' = "release"
            /\ dragging' = NoSquare
            /\ UNCHANGED <<pieces, gameOverTexts, removed, probeKings, nMoves>>
    /\ UNCHANGED <<hiSq, sqColor>>

\* releasePiece, with the call of swapPieces it makes.
releasePiece ==
    /\ IF dragging # NoSquare
       THEN IF \/ hiSq = NoSquare
               \/ isVaidMove(pieces, pieces[dragging], dragging, hiSq) = FALSE
            THEN /\ event' = "release_invalid"
                 /\ UNCHANGED <<pieces, gameOverTexts, removed, probeKings, nMoves>>
            ELSE LET flagged == [pieces EXCEPT ![dragging].is_first_move = FALSE]
                     swap == swapPieces(flagged, dragging, hiSq)
                 IN /\ nMoves < MaxMoves
                    /\ event' = "release_swapping"
                    /\ pieces' = swap.pieces
                    /\ gameOverTexts' = gameOverTexts + (IF swap.gameOver THEN 1 ELSE 0)
                    /\ removed' = removed \cup ({swap.removed} \ {-1})
                    /\ probeKings' = probeKings + swap.constructed
                    /\ nMoves' = nMoves + 1
       ELSE /\ event' = "release"
            /\ UNCHANGED <<pieces, gameOverTexts, removed, probeKings, nMoves>>
    /\ dragging' = NoSquare
    /\ UNCHANGED <<hiSq, sqColor>>

\* ------------------------------------------------------------------------
\* The session: the engine runs mouseTask every frame and delivers mouse1 /
\* mouse1-up between frames, in any order.
\* ------------------------------------------------------------------------

IdsOn(pcs) == {pcs[s].id : s \in {q \in Squares : pcs[q] # NoPiece}}

RECURSIVE Replay(_, _, _)
\* The session state st = [pieces, gameOverTexts, removed, probeKings] after
\* releasePiece
\* has been offered the moves script[i..] in turn: each <<from, to>> is a drag
\* from the square from released over the square to, which releasePiece
\* applies only if isVaidMove accepts it.
Replay(st, script, i) ==
    IF i > Len(script)
    THEN st
    ELSE LET fr == script[i][1]
             to == script[i][2]
             swap == swapPieces(st.pieces, fr, to)
         IN IF st.pieces[fr] # NoPiece
               /\ isVaidMove(st.pieces, st.pieces[fr], fr, to)
            THEN Replay([pieces |-> swap.pieces,
                         gameOverTexts |-> st.gameOverTexts
                                             + (IF swap.gameOver THEN 1 ELSE 0),
                         removed |-> st.removed \cup ({swap.removed} \ {-1}),
                         probeKings |-> st.probeKings + swap.constructed],
                        script, i + 1)
            ELSE Replay(st, script, i + 1)

\* The state __init__ leaves.
Constructed ==
    [pieces |-> InitialPieces, gameOverTexts |-> 0, removed |-> {}, probeKings |-> 0]

\* Moves played before the modelled part of a session begins: none; or d2-e3
\* followed by Qd1xd7; or e2-e3 followed by the white king's walk e1-e2-d3-d4-
\* d5-d6xd7, which leaves the two kings next to each other.
Openings ==
    { << >>,
      << <<11, 20>>, <<3, 51>> >>,
      << <<12, 20>>, <<4, 12>>, <<12, 19>>, <<19, 27>>, <<27, 35>>, <<35, 43>>,
         <<43, 51>> >> }

Init ==
    /\ \E script \in Openings :
          LET st == Replay(Constructed, script, 1)
          IN /\ pieces = st.pieces
             /\ gameOverTexts = st.gameOverTexts
             /\ removed = st.removed
             /\ probeKings = st.probeKings
    /\ hiSq = NoSquare
    /\ dragging = NoSquare
    /\ sqColor = [i \in Squares |-> SquareColor(i)]
    /\ nMoves = 0
    /\ event = "init"

Tick == \E hasMouse \in BOOLEAN : mouseTask(hasMouse, PointerSquares)

Press == grabPiece

Release == releasePiece

Next == Tick \/ Press \/ Release

Spec == Init /\ [][Next]_vars

\* ------------------------------------------------------------------------
\* The legality procedure on sparse boards: a piece is dragged, one frame
\* rescans the 64 squares, and the piece is released.
\* ------------------------------------------------------------------------

\* The dragged piece: one object of each class and side from the constructed
\* layout (a white and a patched black pawn among them).
LegalMovers == {InitialPieces[i] : i \in {0, 1, 2, 3, 4, 8, 48, 56, 57, 58, 59, 60}}

\* The other piece on the board, if any: the white or the black g-file knight.
LegalOthers == {InitialPieces[6], InitialPieces[62]}

\* A pawn only ever moves away from its own back rank.
CanStandOn(piece, s) ==
    piece.kind = "Pawn" =>
        IF piece.white THEN s >= BoardWidth ELSE s < NumSquares - BoardWidth

\* The piece object once a move has put it on square s.
PutOn(piece, s) == IF s = piece.id THEN piece ELSE [piece EXCEPT !.square = s]

\* The board holding mover on s and other on q, nothing else.
SparseBoard(mover, s, other, q) ==
    [i \in Squares |->
        IF i = s THEN PutOn(mover, s)
        ELSE IF i = q /\ other # NoPiece THEN PutOn(other, q)
        ELSE NoPiece]

\* The state right after the piece on s has been grabbed.
Grabbed(board, s) ==
    /\ pieces = board
    /\ hiSq = NoSquare
    /\ dragging = s
    /\ sqColor = [i \in Squares |-> IF i = s THEN "HIGHLIGHT" ELSE SquareColor(i)]
    /\ gameOverTexts = Cardinality({4, 60} \ IdsOn(board))
    /\ removed = IdsOn(InitialPieces) \ IdsOn(board)
    /\ probeKings = Cardinality(IdsOn(InitialPieces) \ IdsOn(board))
    /\ nMoves = 0
    /\ event = "press"

InitLegal ==
    \E mover \in LegalMovers, s \in Squares :
       /\ CanStandOn(mover, s)
       /\ \/ Grabbed(SparseBoard(mover, s, NoPiece, s), s)
          \/ /\ mover.white \/ mover.kind = "Pawn"
             /\ \E other \in LegalOthers, q \in Squares \ {s} :
                   Grabbed(SparseBoard(mover, s, other, q), s)

\* The first frame after the grab, with the mouse in the window and the
\* pointer over no square or over an occupied one: the square of the other
\* piece, or the origin of the drag when the dragged piece is alone on the
\* board.
ScanFrame ==
    /\ event = "press"
    /\ mouseTask(TRUE, {q \in Squares :
                           /\ pieces[q] # NoPiece
                           /\ q = dragging =>
                                 \A r \in Squares \ {q} : pieces[r] = NoPiece})

\* The button is released after that frame.
Drop ==
    /\ event = "tick"
    /\ releasePiece

NextLegal == ScanFrame \/ Drop

SpecLegal == InitLegal /\ [][NextLegal]_vars

\* ------------------------------------------------------------------------
\* Vocabulary of the properties
\* ------------------------------------------------------------------------

File(s) == s % BoardWidth

Rank(s) == s \div BoardWidth

\* The move vectors of a piece, as a set.
Vectors(piece) == {MovesOf(piece)[i] : i \in 1 .. Len(MovesOf(piece))}

\* t is k steps of the vector v away from s, by file and by rank.
Reaches(s, t, v, k) ==
    /\ File(t) - File(s) = k * v[1]
    /\ Rank(t) - Rank(s) = k * v[2]

\* The numbers of steps a ray can have on the board.
RaySteps == 1 .. (BoardWidth - 1)

\* The square k steps of v away from s is on the board.
OnBoard(s, v, k) ==
    /\ File(s) + k * v[1] \in 0 .. (BoardWidth - 1)
    /\ Rank(s) + k * v[2] \in 0 .. (BoardWidth - 1)

\* That square.
Target(s, v, k) == s + k * (v[1] + v[2] * BoardWidth)

\* The squares strictly between s and the square k steps of v away from it.
StrictlyBetween(s, v, k) ==
    {s + j * (v[1] + v[2] * BoardWidth) : j \in 1 .. (k - 1)}

Ranged(piece) == piece.kind \in {"Bishop", "Rook", "Queen"}

NonRanged(piece) == piece.kind \in {"Pawn", "Knight", "King"}

\* A frame has rescanned the board for the dragged piece.  In SpecLegal no
\* square is coloured VALID before that frame, so the verdict of isVaidMove for
\* the target t is the colour of square t afterwards, for every t but the
\* square under the pointer, which the frame recolours last.
Scanned == event = "tick" /\ dragging # NoSquare

Judged == Squares \ {hiSq}

Verdict(t) == sqColor[t] = "VALID"

Mover == pieces[dragging]

SameSide(t) == pieces[t] # NoPiece /\ pieces[t].white = Mover.white

Opposing(t) == pieces[t] # NoPiece /\ pieces[t].white # Mover.white

MoverAlone == \A q \in Squares \ {dragging} : pieces[q] = NoPiece

\* The pieces that are on the board before a step and on no square after it.
Taken ==
    IF pieces' = pieces
    THEN {}
    ELSE LET after == IdsOn(pieces')
         IN {q \in Squares : pieces[q] # NoPiece /\ pieces[q].id \notin after}

\* ------------------------------------------------------------------------
\* C1
\* ------------------------------------------------------------------------

C1_NoSameSideTarget ==
    Scanned => \A t \in Judged : SameSide(t) => ~Verdict(t)

C1_NoSameSideRemoval ==
    \A q \in Taken : dragging # NoSquare /\ pieces[q].white # pieces[dragging].white

\* C1: a target square that holds a piece of the mover's side is never judged
\* legal, whatever the mover's kind and whether or not the displacement is one
\* of its vectors; and no step removes a piece from the board unless a piece of
\* the other side is being dragged.
C1_SameSideNeverLegal == []C1_NoSameSideTarget /\ [][C1_NoSameSideRemoval]_vars

\* A scan has rejected a same-side target that is exactly one vector away.
C1_Witness ==
    /\ Scanned
    /\ hiSq = NoSquare
    /\ \E t \in Squares :
          /\ SameSide(t)
          /\ \E v \in Vectors(Mover) : Reaches(dragging, t, v, 1)
          /\ ~Verdict(t)

\* ------------------------------------------------------------------------
\* C2
\* ------------------------------------------------------------------------

\* Some square strictly between s and the k-th square of the ray v is occupied.
Blocked(s, v, k) == \E b \in StrictlyBetween(s, v, k) : pieces[b] # NoPiece

\* C2 as stated: for a ranged mover and a target k >= 2 steps along a vector,
\* the move is illegal when a square strictly between is occupied, and what
\* stands on any other square, the target included, does not change the
\* verdict, which is "legal" on the otherwise empty board.
C2_AsStated ==
    (Scanned /\ Ranged(Mover)) =>
        \A v \in Vectors(Mover), k \in RaySteps \ {1} :
            (OnBoard(dragging, v, k) /\ Target(dragging, v, k) \in Judged) =>
                (Verdict(Target(dragging, v, k)) <=> ~Blocked(dragging, v, k))

\* C2 (amended): for a ranged mover and a target t that is k >= 2 steps along a
\* vector, the move is illegal when a square strictly between is occupied; when
\* none is, the verdict depends on t alone (illegal iff t holds a piece of the
\* mover's side) and on no other square.
C2_Obstruction ==
    (Scanned /\ Ranged(Mover)) =>
        \A v \in Vectors(Mover), k \in RaySteps \ {1} :
            (OnBoard(dragging, v, k) /\ Target(dragging, v, k) \in Judged) =>
                (Verdict(Target(dragging, v, k))
                    <=> (~Blocked(dragging, v, k)
                         /\ ~SameSide(Target(dragging, v, k))))

\* The rook on 0 with a piece on 24: 16 is judged legal, 56 is not.
C2_Witness ==
    /\ Scanned
    /\ hiSq = NoSquare
    /\ dragging = 0
    /\ Mover.kind = "Rook"
    /\ pieces[24] # NoPiece
    /\ Verdict(16)
    /\ ~Verdict(56)

\* ------------------------------------------------------------------------
\* C3
\* ------------------------------------------------------------------------

\* C3: for every piece kind, the square exactly one vector away from the mover
\* (on the board by file and by rank) is judged legal when it is empty or holds
\* a piece of the other side.
C3_ExactTargetLegal ==
    Scanned =>
        \A v \in Vectors(Mover) :
            (/\ OnBoard(dragging, v, 1)
             /\ Target(dragging, v, 1) \in Judged
             /\ ~SameSide(Target(dragging, v, 1))) => Verdict(Target(dragging, v, 1))

\* A pawn is judged free to take the opposing piece on the square straight
\* ahead of it.
C3_Witness ==
    /\ Scanned
    /\ hiSq = NoSquare
    /\ Mover.kind = "Pawn"
    /\ \E t \in Squares :
          /\ Opposing(t)
          /\ Reaches(dragging, t, MovesOf(Mover)[1], 1)
          /\ Verdict(t)

\* ------------------------------------------------------------------------
\* C4
\* ------------------------------------------------------------------------

\* The uniform rule: the squares a positive number of steps of some vector
\* away from s, by file and by rank.
Aligned(piece, s) ==
    {t \in Squares : \E v \in Vectors(piece), k \in RaySteps : Reaches(s, t, v, k)}

\* The targets for which the match step succeeds: some pass of the loop over
\* the vectors of a ranged piece matches the displacement.
Matched(piece, s) ==
    {t \in Squares : MatchingPasses(MovesOf(piece), FALSE,
                                    File(t) - File(s), Rank(t) - Rank(s)) # {}}

\* C4: for a ranged mover the match step succeeds exactly for the aligned
\* targets; and on a board with no other piece, where nothing obstructs and
\* nothing is captured, the targets judged legal are exactly the aligned ones.
C4_UniformRule ==
    (Scanned /\ Ranged(Mover) /\ MoverAlone) =>
        /\ Matched(Mover, dragging) = Aligned(Mover, dragging)
        /\ {t \in Squares : Verdict(t)} = Aligned(Mover, dragging)

\* The queen alone on 31 (h4): 24 (a4), seven steps away, is judged legal; 32
\* (a5), the next linear index, and 46 (g6), a knight's move away, are not.
C4_Witness ==
    /\ Scanned
    /\ Mover.kind = "Queen"
    /\ dragging = 31
    /\ MoverAlone
    /\ Verdict(24)
    /\ ~Verdict(32)
    /\ ~Verdict(46)

\* ------------------------------------------------------------------------
\* C5
\* ------------------------------------------------------------------------

\* C5: for a pawn, knight or king the targets judged legal are exactly the
\* squares one vector away (by file and by rank) that hold no piece of the
\* mover's side, whatever stands on the squares in between.
C5_ExactVectorsOnly ==
    (Scanned /\ NonRanged(Mover)) =>
        LET exact == {Target(dragging, v, 1) :
                         v \in {w \in Vectors(Mover) : OnBoard(dragging, w, 1)}}
        IN \A t \in Judged : Verdict(t) <=> (t \in exact /\ ~SameSide(t))

\* The knight on 1 (b1) with a piece on 9 (b2): 16 and 18 are judged legal.
C5_Witness ==
    /\ Scanned
    /\ hiSq = NoSquare
    /\ Mover.kind = "Knight"
    /\ dragging = 1
    /\ pieces[9] # NoPiece
    /\ Verdict(16)
    /\ Verdict(18)
    /\ ~Verdict(17)

\* ------------------------------------------------------------------------
\* C6
\* ------------------------------------------------------------------------

\* The step is a release that applies a move.
AppliesMove == event' = "release_swapping"

\* The step is a release, whatever its outcome.
IsRelease == event' \in {"release", "release_invalid", "release_swapping"}

\* The same piece object, whatever attributes a move has updated on it.
SamePiece(p, q) == p.id = q.id /\ p.kind = q.kind /\ p.white = q.white

C6_Effect ==
    AppliesMove =>
        /\ dragging # NoSquare /\ hiSq # NoSquare /\ dragging # hiSq
        /\ pieces'[hiSq] # NoPiece
        /\ SamePiece(pieces'[hiSq], pieces[dragging])
        /\ pieces'[dragging] = NoPiece
        /\ pieces[hiSq] # NoPiece =>
              /\ pieces[hiSq].id \notin IdsOn(pieces')
              /\ pieces[hiSq].white # pieces[dragging].white
        /\ \A q \in Squares \ {dragging, hiSq} : pieces'[q] = pieces[q]

\* C6: a release that applies the move from s (the dragged square) to t (the
\* highlighted square) leaves the piece of s on t and s empty, leaves the piece
\* that stood on t, necessarily of the other side, on no square, and leaves
\* every other square as it was.
C6_MoveEffect == [][C6_Effect]_vars

\* The white queen has just taken the black queen on 59 (d8) from 51 (d7).
C6_Witness ==
    /\ event = "release_swapping"
    /\ pieces[59] # NoPiece
    /\ pieces[59].id = 3
    /\ pieces[51] = NoPiece
    /\ 59 \in removed
    /\ 59 \notin IdsOn(pieces)

\* ------------------------------------------------------------------------
\* C7
\* ------------------------------------------------------------------------

\* The step takes a king off the board.
KingTaken == \E q \in Taken : pieces[q].kind = "King"

C7_Signal == gameOverTexts' = gameOverTexts + (IF KingTaken THEN 1 ELSE 0)

\* C7: a step puts up the "Game over!" text once if it takes a king off the
\* board, and no step of any other sort (a move that captures nothing or a
\* piece that is no king, a rejected release, a press, a frame) puts it up.
C7_GameOverIffKingCaptured == [][C7_Signal]_vars

\* The black king (constructed on 60) has just been taken and the text put up.
C7_Witness ==
    /\ event = "release_swapping"
    /\ gameOverTexts = 1
    /\ 60 \in removed
    /\ 60 \notin IdsOn(pieces)

\* ------------------------------------------------------------------------
\* C8
\* ------------------------------------------------------------------------

\* The step is a release while a piece is dragged and either no square is
\* highlighted or isVaidMove rejects the move to the highlighted square.
RejectedRelease ==
    /\ IsRelease
    /\ dragging # NoSquare
    /\ \/ hiSq = NoSquare
       \/ ~isVaidMove(pieces, pieces[dragging], dragging, hiSq)

C8_Release ==
    /\ IsRelease => dragging' = NoSquare
    /\ RejectedRelease =>
          /\ pieces' = pieces
          /\ removed' = removed
          /\ gameOverTexts' = gameOverTexts

\* C8: a rejected release leaves the board as it was and captures nothing, and
\* after every release nothing is dragged.
C8_RejectedRelease == [][C8_Release]_vars

\* A piece was released over a highlighted square, the move was rejected, and
\* the board is still the constructed one.
C8_Witness ==
    /\ event = "release_invalid"
    /\ hiSq # NoSquare
    /\ dragging = NoSquare
    /\ pieces = InitialPieces
    /\ removed = {}

\* ------------------------------------------------------------------------
\* C9
\* ------------------------------------------------------------------------

C9_Press ==
    event' = "press" =>
        /\ IF hiSq # NoSquare /\ pieces[hiSq] # NoPiece
           THEN dragging' = hiSq /\ hiSq' = NoSquare
           ELSE dragging' = dragging /\ hiSq' = hiSq
        /\ pieces' = pieces

\* C9: a press over a highlighted occupied square makes it the dragged square
\* and clears the highlight index; any other press changes neither; no press
\* changes the board.
C9_PressTransition == [][C9_Press]_vars

\* The queen on 59 (d8) has just been grabbed.
C9_Witness ==
    /\ event = "press"
    /\ dragging = 59
    /\ hiSq = NoSquare
    /\ pieces[59] # NoPiece

\* ------------------------------------------------------------------------
\* C10
\* ------------------------------------------------------------------------

\* No piece object is on two squares: the occupied squares are as many as the
\* piece objects on them.
UniqueOccupancy ==
    Cardinality({q \in Squares : pieces[q] # NoPiece}) = Cardinality(IdsOn(pieces))

\* Every piece on the board is one of the constructed ones, of its kind and side.
OnlyConstructedPieces ==
    \A q \in Squares :
        pieces[q] # NoPiece =>
            /\ pieces[q].id \in IdsOn(InitialPieces)
            /\ SamePiece(pieces[q], InitialPieces[pieces[q].id])

\* The number of pieces on the board drops by one on a capturing move and is
\* unchanged by every other step.
CountRule ==
    pieces' # pieces =>
        Cardinality(IdsOn(pieces')) =
            Cardinality(IdsOn(pieces))
                - (IF AppliesMove /\ pieces[hiSq] # NoPiece THEN 1 ELSE 0)

\* The step constructs no piece object.
NoPieceCreated == probeKings' = probeKings

\* The part of C10 that is about the board: no piece is on two squares, the
\* pieces on the board are constructed ones of unchanged kind and side, and
\* their number follows the count rule.
C10_BoardConservation ==
    [](UniqueOccupancy /\ OnlyConstructedPieces) /\ [][CountRule]_vars

\* C10: in every reachable state no piece is on two squares and every piece
\* on the board is a constructed one of unchanged kind and side; no step
\* creates a piece; and the number of pieces on the board drops by one on a
\* capturing move and is unchanged by every other step.
C10_Conservation ==
    /\ [](UniqueOccupancy /\ OnlyConstructedPieces)
    /\ [][CountRule /\ NoPieceCreated]_vars

\* ------------------------------------------------------------------------
\* C11
\* ------------------------------------------------------------------------

\* The piece object with the identity id, wherever it stands on the board b.
PieceOf(b, id) == b[CHOOSE q \in Squares : b[q] # NoPiece /\ b[q].id = id]

\* The flag a piece carries about having moved: the attribute is_first_move,
\* which the constructor initialises and releasePiece assigns on a move.
HasMovedFlag(p) == p.is_first_move

\* A piece that swapPieces has never placed has its flag unset.
C11_UnmovedUnset ==
    \A q \in Squares :
        (pieces[q] # NoPiece /\ pieces[q].square = -1) => ~HasMovedFlag(pieces[q])

\* An applied move sets the flag of the mover; no step unsets a flag; a step
\* that applies no move leaves every flag as it is.
C11_FlagStep ==
    /\ AppliesMove => HasMovedFlag(pieces'[hiSq])
    /\ \A id \in IdsOn(pieces) \cap IdsOn(pieces') :
          /\ HasMovedFlag(PieceOf(pieces, id)) => HasMovedFlag(PieceOf(pieces', id))
          /\ ~AppliesMove =>
                (HasMovedFlag(PieceOf(pieces', id)) = HasMovedFlag(PieceOf(pieces, id)))

\* C11: the flag is unset for every piece that has not moved, is set when the
\* piece makes its first applied move and stays set in every later state, and
\* a rejected release does not set it.
C11_HasMoved == []C11_UnmovedUnset /\ [][C11_FlagStep]_vars

\* What the program does instead: the flag is unset on every piece in every
\* state, moved or not.
C11_FlagNeverSet ==
    \A q \in Squares : pieces[q] # NoPiece => ~HasMovedFlag(pieces[q])

\* ------------------------------------------------------------------------
\* C12
\* ------------------------------------------------------------------------

\* After a rescan: no pass of the loop over the mover's vectors matches the
\* zero displacement, and the origin of the drag is not judged legal.
C12_OriginNotLegal ==
    Scanned =>
        /\ MatchingPasses(MovesOf(Mover), LimitOf(Mover), 0, 0) = {}
        /\ dragging \in Judged => ~Verdict(dragging)

\* A release over the origin of the drag is rejected and leaves the board as
\* it was.
C12_ReleaseOnOrigin ==
    (IsRelease /\ dragging # NoSquare /\ hiSq = dragging) =>
        /\ event' = "release_invalid"
        /\ pieces' = pieces

\* C12: for every piece kind the move from a square to itself is illegal: the
\* zero displacement matches no vector, the origin is never among the squares
\* judged legal, and releasing the piece over its origin never changes the
\* board.
C12_NullMoveIllegal == []C12_OriginNotLegal /\ [][C12_ReleaseOnOrigin]_vars

\* A queen, alone on the board, has been released over the square it was
\* grabbed from, and the release was rejected.
C12_Witness ==
    /\ event = "release_invalid"
    /\ hiSq # NoSquare
    /\ pieces[hiSq] # NoPiece
    /\ pieces[hiSq].kind = "Queen"
    /\ \A q \in Squares \ {hiSq} : pieces[q] = NoPiece

\* ------------------------------------------------------------------------
\* C13
\* ------------------------------------------------------------------------

C13_Write ==
    /\ event' \in {"tick", "tick_nomouse", "press"} => pieces' = pieces
    /\ pieces' # pieces =>
          /\ IsRelease
          /\ dragging # NoSquare
          /\ hiSq # NoSquare
          /\ isVaidMove(pieces, pieces[dragging], dragging, hiSq)

\* C13: frames and presses leave every slot of the board as it was, and every
\* step that changes the board is a release while a piece is dragged from s
\* with a square t highlighted such that isVaidMove accepted the move from s to
\* t on the board as it was before the step.
C13_BoardWrittenOnlyByRelease == [][C13_Write]_vars

\* The black pawn constructed on 51 (d7) has just been moved to 43 (d6).
C13_Witness ==
    /\ event = "release_swapping"
    /\ pieces[43] # NoPiece
    /\ pieces[43].id = 51
    /\ pieces[51] = NoPiece

\* ------------------------------------------------------------------------
\* C14
\* ------------------------------------------------------------------------

\* The squares that carry the legal-destination colour.
ValidMarks == {t \in Squares : sqColor[t] = "VALID"}

\* The squares isVaidMove accepts as targets of the dragged piece.
LegalTargets ==
    {t \in Squares : isVaidMove(pieces, pieces[dragging], dragging, t)}

\* C14: after every frame with the mouse in the window, the squares marked as
\* legal destinations are exactly the legal targets of the dragged piece (the
\* highlighted square apart) while a piece is dragged, and none is marked
\* while no piece is dragged.
C14_HighlightExact ==
    event = "tick" =>
        ValidMarks = (IF dragging # NoSquare THEN LegalTargets \ {hiSq} ELSE {})

\* What the program does guarantee: after such a frame every legal target of
\* the dragged piece, the highlighted square apart, is marked.
C14_LegalTargetsMarked ==
    (event = "tick" /\ dragging # NoSquare) => (LegalTargets \ {hiSq}) \subseteq ValidMarks

\* ------------------------------------------------------------------------
\* C15
\* ------------------------------------------------------------------------

\* The squares that carry the hover colour.
HoverMarks == {t \in Squares : sqColor[t] = "HIGHLIGHT"}

\* C15: at most one square carries the hover mark in any state, and after a
\* frame with the mouse in the window the mark is on exactly the square the
\* collision pass reported in that frame, on none if it reported none.
C15_NonStickyHover ==
    /\ Cardinality(HoverMarks) <= 1
    /\ event = "tick" => HoverMarks = {hiSq} \ {NoSquare}

\* What the program does guarantee: after such a frame the reported square
\* carries the hover mark.
C15_ReportedMarked ==
    (event = "tick" /\ hiSq # NoSquare) => hiSq \in HoverMarks

\* ------------------------------------------------------------------------
\* C16
\* ------------------------------------------------------------------------

\* In a state in which a "Game over!" text is up: a press over a highlighted
\* occupied square starts a drag, and a release of a dragged piece over a
\* highlighted square that isVaidMove accepts applies the move, putting up
\* another text if the piece taken is a king.
C16_StillPlays ==
    gameOverTexts > 0 =>
        /\ (event' = "press" /\ hiSq # NoSquare /\ pieces[hiSq] # NoPiece) =>
              dragging' = hiSq
        /\ (/\ IsRelease
            /\ dragging # NoSquare
            /\ hiSq # NoSquare
            /\ isVaidMove(pieces, pieces[dragging], dragging, hiSq)) =>
              /\ AppliesMove
              /\ pieces'[hiSq] # NoPiece
              /\ SamePiece(pieces'[hiSq], pieces[dragging])
              /\ pieces'[dragging] = NoPiece
              /\ (pieces[hiSq] # NoPiece /\ pieces[hiSq].kind = "King") =>
                    gameOverTexts' = gameOverTexts + 1

\* C16: the capture of a king locks nothing: afterwards presses start drags and
\* releases apply legal moves as before, the capture of the second king (with
\* its own "Game over!" text) included.
C16_NoLockAfterGameOver == [][C16_StillPlays]_vars

\* Both kings have been taken, the second by a move applied after the first
\* "Game over!" text was up.
C16_Witness ==
    /\ event = "release_swapping"
    /\ gameOverTexts = 2
    /\ {4, 60} \subseteq removed

\* ------------------------------------------------------------------------
\* C17
\* ------------------------------------------------------------------------

\* The vector of the pass of isVaidMove that starts the walk to t.
WalkVector(t) ==
    ScannedMove(MovesOf(Mover), File(t) - File(dragging), Rank(t) - Rank(dragging))

\* The walk isVaidMove starts for the dragged ranged piece and the target t.
WalkTo(t) == ScanWalk(WalkVector(t), dragging, t)

\* The walk ends on t after Len(walk.inspected) + 1 steps of the vector v, t is
\* that many steps of v away from the origin by file and by rank, and the
\* positions inspected are, in order, the squares 1, 2, ... steps of v away
\* from the origin by file and by rank.
EndsAtTarget(walk, t, v) ==
    /\ walk.exit = t
    /\ Len(walk.inspected) + 1 \in RaySteps
    /\ Reaches(dragging, t, v, Len(walk.inspected) + 1)
    /\ \A j \in 1 .. Len(walk.inspected) :
          /\ walk.inspected[j] \in Squares
          /\ Reaches(dragging, walk.inspected[j], v, j)

\* C17: for a dragged ranged piece, the targets for which a pass matches are
\* those k >= 1 steps of one of its vectors away by file and by rank; for each
\* of them the matching pass has that vector, and the walk of isPieceBetween
\* ends on the target after exactly k steps of it, inspecting exactly the k-1
\* squares strictly between on the ray and no position off the board or on
\* another rank's ray; and the target is judged legal exactly when none of the
\* inspected squares is occupied and the target holds no piece of the mover's
\* side.
C17_ScanEndsAtTarget ==
    (Scanned /\ Ranged(Mover)) =>
        /\ MoverAlone => Matched(Mover, dragging) \subseteq Aligned(Mover, dragging)
        /\ \A v \in Vectors(Mover), k \in RaySteps :
              OnBoard(dragging, v, k) =>
                  \E t \in {Target(dragging, v, k)} :
                  \E walk \in {ScanWalk(v, dragging, t)} :
                      /\ WalkVector(t) = v
                      /\ EndsAtTarget(walk, t, v)
                      /\ Len(walk.inspected) = k - 1
                      /\ t \in Judged =>
                            (Verdict(t) <=>
                                /\ \A j \in 1 .. (k - 1) :
                                      pieces[walk.inspected[j]] = NoPiece
                                /\ ~SameSide(t))

\* The queen on 0 (a1) with a piece on 18 (c3): the walk to 27 (d4) inspects 9
\* and 18 and ends on 27, which is not judged legal.
C17_Witness ==
    /\ Scanned
    /\ hiSq = NoSquare
    /\ dragging = 0
    /\ Mover.kind = "Queen"
    /\ pieces[18] # NoPiece
    /\ WalkTo(27) = [inspected |-> <<9, 18>>, exit |-> 27]
    /\ ~Verdict(27)

\* ------------------------------------------------------------------------
\* C18
\* ------------------------------------------------------------------------

\* A step that is no release leaves the origin of a drag in progress alone.
C18_OriginKept == (dragging # NoSquare /\ ~IsRelease) => dragging' = dragging

\* C18: once a press has started a drag from s, the dragged square stays s in
\* every state up to the following release, whatever frames and presses come
\* in between; only a release ends or changes a drag.
C18_DragKeepsOrigin == [][C18_OriginKept]_vars

\* The part of C18 that is about frames: no frame changes the dragged square,
\* and a press during a drag changes it only to an occupied square that a frame
\* has highlighted since the drag began.
C18_FramesKeepOrigin ==
    [][/\ event' \in {"tick", "tick_nomouse"} => dragging' = dragging
       /\ (dragging # NoSquare /\ event' = "press" /\ dragging' # dragging) =>
             /\ hiSq # NoSquare
             /\ pieces[hiSq] # NoPiece
             /\ dragging' = hiSq]_vars

\* ------------------------------------------------------------------------
\* C19
\* ------------------------------------------------------------------------

\* C19: in every reachable state, if a square is being dragged then a piece
\* stands on it, so the reads of self.pieces[self.dragging] in the rescan of
\* mouseTask and in releasePiece never meet an empty slot.
C19_DraggedOccupied == dragging # NoSquare => pieces[dragging] # NoPiece

\* The pawn that has moved from 51 (d7) to 43 (d6) is dragged from 43, a square
\* that was empty when the layout was constructed, and a frame has rescanned
\* the board for it.
C19_Witness ==
    /\ Scanned
    /\ dragging = 43
    /\ pieces[43] # NoPiece
    /\ pieces[43].id = 51
    /\ pieces[51] = NoPiece

\* ------------------------------------------------------------------------
\* C20
\* ------------------------------------------------------------------------

\* The change of rank of a pawn move of the side of p.
Forward(p) == IF p.white THEN 1 ELSE -1

\* The rank the pawns of the side of p start behind and the rank they end on.
BackRank(p) == IF p.white THEN 0 ELSE BoardWidth - 1

LastRank(p) == IF p.white THEN BoardWidth - 1 ELSE 0

\* The move from s to t is one rank forward for p, on the same or a
\* neighbouring file.
OneRankForward(p, s, t) ==
    /\ Rank(t) = Rank(s) + Forward(p)
    /\ File(t) - File(s) \in -1 .. 1

\* No pawn stands on the back rank of its side, on the board b.
NoPawnOnBackRank(b) ==
    \A q \in Squares :
        (b[q] # NoPiece /\ b[q].kind = "Pawn") => Rank(q) # BackRank(b[q])

\* Every target judged legal for a dragged pawn is one rank forward for its
\* side; for a pawn on its last rank no target is judged legal.
PawnTargetsForward ==
    (Scanned /\ Mover.kind = "Pawn") =>
        /\ \A t \in Judged : Verdict(t) => OneRankForward(Mover, dragging, t)
        /\ Rank(dragging) = LastRank(Mover) => \A t \in Judged : ~Verdict(t)

\* An applied pawn move puts the pawn one rank forward for its side.
C20_PawnStep ==
    (AppliesMove /\ Mover.kind = "Pawn") =>
        /\ OneRankForward(Mover, dragging, hiSq)
        /\ pieces'[hiSq] # NoPiece
        /\ SamePiece(pieces'[hiSq], Mover)

\* C20: the pawns of the constructed layout stand off their back ranks; every
\* move judged legal for a white pawn, and every pawn move applied, raises its
\* rank by exactly 1, and for a black pawn lowers it by exactly 1, with a file
\* change of -1, 0 or 1; so no white pawn is ever on rank 0 and no black pawn
\* on rank 7, and a pawn on its last rank has no legal move.
C20_PawnDirection ==
    /\ [](NoPawnOnBackRank(InitialPieces) /\ NoPawnOnBackRank(pieces)
             /\ PawnTargetsForward)
    /\ [][C20_PawnStep]_vars

\* A black pawn has just taken a piece on rank 0, its last rank, coming from
\* rank 1.
C20_Witness ==
    /\ event = "release_swapping"
    /\ hiSq # NoSquare
    /\ pieces[hiSq] # NoPiece
    /\ pieces[hiSq].kind = "Pawn"
    /\ ~pieces[hiSq].white
    /\ Rank(hiSq) = 0
    /\ removed \cap {6, 62} # {}

\* The part of C20 that is about applied moves, for the session from the
\* constructed layout: no pawn is on the back rank of its side, and every
\* applied pawn move, capturing or not, is one rank forward for its side.
C20_SessionPawnSteps == []NoPawnOnBackRank(pieces) /\ [][C20_PawnStep]_vars

====
